---- MODULE Spec2Model ----
(***************************************************************************)
(* Model of laptime_predictor: the feature-engineering pipeline            *)
(* (predictor/features.py), the data helpers (predictor/utils.py), the     *)
(* SimulatorImputer (predictor/imputer.py) and the F1LapPredictor          *)
(* orchestrator (predictor/model.py).                                      *)
(*                                                                         *)
(* Representation.                                                         *)
(*  - A Python str is a sequence of one-character strings, so that         *)
(*    indexing a str (k[0]) and comparing strs (sorted) can be modelled.   *)
(*  - A DataFrame is a sequence of rows in positional order; a row is a    *)
(*    record of its columns plus "index" (its index label) and "na" (the   *)
(*    set of required columns whose cell is missing/NaN).                  *)
(*  - Times are integers in a fixed tick. Input times are even, so that    *)
(*    the median of an even-sized group (mean of the two middle values)    *)
(*    is again an integer number of ticks.                                 *)
(*  - A TyreLife is a number with one decimal digit, carried as ten times  *)
(*    its value (25 is 2.5 laps); so are the numbers derived from it by    *)
(*    int() and +, among them the index labels of simulate's result.       *)
(*  - Quotients that are not integers are pairs <<numerator, denominator>>,*)
(*    and a product of such quotients is the sequence of its factors.      *)
(***************************************************************************)
EXTENDS Integers, Sequences, FiniteSets, TLC

VARIABLES
    frame,      \* the DataFrame object held by the caller of build_features
    imputer,    \* a SimulatorImputer object: [_tables, _global]
    predictor,  \* an F1LapPredictor object
    call        \* the last call: its operation, arguments and outcome

vars == <<frame, imputer, predictor, call>>

----------------------------------------------------------------------------
(* Bounds of the model *)

MaxRows == 5        \* rows of a table handed to clean_data / build_features
MaxTrainRows == 3   \* rows of a table a SimulatorImputer is fitted on
MaxData == 3        \* rows of the data set a predictor is fitted on and asked about
MaxLaps == 2        \* largest n_laps of an impute / simulate call
MaxFit == 4         \* rows of the data set of a predictor that is only trained
MaxSim == 4         \* rows of the data set of a predictor that is trained and simulates

----------------------------------------------------------------------------
(* Program constants: config/settings.py *)

ROLLING_WINDOW == 3
\* OUTLIER_QUANTILE = 0.995, in thousandths
OUTLIER_QUANTILE == 995
\* FUEL_LOAD_FACTOR = 0.0015 and TYRE_DEGRADE_FACTOR = 0.003, in ten-thousandths
FUEL_LOAD_FACTOR == 15
TYRE_DEGRADE_FACTOR == 30
\* DEFAULT_TEST_SIZE = 0.2, in hundredths
DEFAULT_TEST_SIZE == 20

REQUIRED_COLS ==
    {"Driver", "Team", "Compound", "TyreLife",
     "LapTime", "Sector1Time", "Sector2Time", "Sector3Time", "Event"}

FEATURES ==
    <<"Team", "Compound",
      "TyreLife", "Tyre_Degrade", "FuelProxy", "FuelEffect",
      "TyreFuel", "TyreFuelSq",
      "LapNorm", "LapDeltaPrev",
      "Sector1Time_Norm", "Sector2Time_Norm", "Sector3Time_Norm",
      "Sector1Time_PrevDelta", "Sector2Time_PrevDelta", "Sector3Time_PrevDelta",
      "S1_Ratio", "S2_Ratio", "S3_Ratio",
      "LapDelta_RollMean", "LapDelta_RollStd",
      "Sector1Time_RollMean", "Sector1Time_RollStd",
      "Sector2Time_RollMean", "Sector2Time_RollStd",
      "Sector3Time_RollMean", "Sector3Time_RollStd">>

----------------------------------------------------------------------------
(* Python values *)

\* An Optional value: None is <<>>, a value x is <<x>>
None == <<>>
Some(x) == <<x>>

\* Code-point order of the characters used
Alphabet ==
    <<"A", "B", "C", "D", "E", "F", "G", "H", "I", "J", "K", "L", "M",
      "N", "O", "P", "Q", "R", "S", "T", "U", "V", "W", "X", "Y", "Z">>

Ord(c) == CHOOSE i \in 1..Len(Alphabet) : Alphabet[i] = c

\* a < b for two strs (lexicographic by code point)
StrLess(a, b) ==
    \E k \in 1..(Len(b)) :
        /\ \A j \in 1..(k - 1) : j <= Len(a) /\ a[j] = b[j]
        /\ \/ Len(a) = k - 1
           \/ Len(a) >= k /\ Ord(a[k]) < Ord(b[k])

\* sorted(S) for a set S of strs
RECURSIVE Sorted(_)
Sorted(S) ==
    IF S = {} THEN <<>>
    ELSE LET m == CHOOSE x \in S : \A y \in S \ {x} : StrLess(x, y)
         IN  <<m>> \o Sorted(S \ {m})

\* the number itself, not truncated
PyIntOmitted(x) == x

\* int(x) of a non-negative number carried as ten times its value: truncation
PyInt(x) == (x \div 10) * 10

Range(s) == {s[i] : i \in 1..Len(s)}

RECURSIVE SumSeq(_)
SumSeq(s) == IF s = <<>> THEN 0 ELSE s[1] + SumSeq(Tail(s))

\* k-th smallest (1-based) value of a non-empty sequence of integers
Kth(s, k) ==
    CHOOSE v \in Range(s) :
        /\ Cardinality({i \in 1..Len(s) : s[i] < v}) < k
        /\ Cardinality({i \in 1..Len(s) : s[i] <= v}) >= k

\* Series.median() of a non-empty sequence of integers
Median(s) ==
    LET n == Len(s)
    IN  IF n % 2 = 1 THEN Kth(s, (n + 1) \div 2)
        ELSE (Kth(s, n \div 2) + Kth(s, n \div 2 + 1)) \div 2

Min(s) == CHOOSE v \in Range(s) : \A w \in Range(s) : v <= w

\* a record r with the columns of s added or overwritten
Assign(r, s) == s @@ r

\* the values of column col at the positions P of df, in positional order
RECURSIVE ColumnAt(_, _, _, _)
ColumnAt(df, col, P, i) ==
    IF i > Len(df) THEN <<>>
    ELSE (IF i \in P THEN <<df[i][col]>> ELSE <<>>) \o ColumnAt(df, col, P, i + 1)

Column(df, col, P) == ColumnAt(df, col, P, 1)

----------------------------------------------------------------------------
(* Lap Records the tables are built from *)

VER == <<"V", "E", "R">>
HAM == <<"H", "A", "M">>
RBR == <<"R", "B", "R">>
MER == <<"M", "E", "R">>
BAH == <<"B", "A", "H">>
MON == <<"M", "O", "N">>
MIA == <<"M", "I", "A">>
SOFT == <<"S", "O", "F", "T">>
MEDIUM == <<"M", "E", "D">>
HARD == <<"H", "A", "R", "D">>

Lap(d, t, e, c, life, lap, s1, s2, s3, na) ==
    [index |-> 0, na |-> na, Driver |-> d, Team |-> t, Event |-> e, Compound |-> c,
     TyreLife |-> life, LapTime |-> lap,
     Sector1Time |-> s1, Sector2Time |-> s2, Sector3Time |-> s3]

\* Lap Records (TyreLife 10 is 1.0 lap, 35 is 3.5 laps)
LapA == Lap(VER, RBR, BAH, MEDIUM, 10, 180, 60, 58, 62, {})
LapB == Lap(VER, RBR, BAH, MEDIUM, 20, 184, 62, 60, 62, {})
LapC == Lap(VER, RBR, BAH, SOFT,   35, 172, 56, 56, 60, {})
LapD == Lap(VER, RBR, MON, MEDIUM, 10, 150, 50, 48, 52, {})
LapE == Lap(HAM, MER, BAH, SOFT,   20, 176, 58, 58, 60, {})
LapF == Lap(HAM, MER, MIA, SOFT,   10, 160, 54, 52, 54, {})
LapS == Lap(VER, RBR, BAH, MEDIUM, 30, 190, 64, 62, 64, {})
\* a Lap Record whose LapTime cell is missing
LapN == Lap(HAM, MER, BAH, SOFT,   10, 0, 58, 58, 62, {"LapTime"})

\* the rows of the tables handed to clean_data and build_features: two Stints
\* of one Driver at one Event, and an incomplete row
FeatureLaps == {LapA, LapB, LapC, LapN}

\* the rows a SimulatorImputer is fitted on (cleaned: TyreLife is an int)
TrainLaps ==
    {Assign(r, [TyreLife |-> PyInt(r.TyreLife)]) : r \in {LapA, LapB, LapD, LapE}}

\* the rows of the data sets a predictor works on
DataLaps == {LapA, LapB, LapD}

\* the rows of the data sets a predictor is trained on when the split is
\* looked at: three Events
FitLaps == {LapA, LapB, LapD, LapF}

\* the rows of the data sets of a predictor that simulates: laps of different
\* LapTime of one Driver at one Event, a second Event, and a slowest lap
SimLaps == {LapA, LapB, LapD, LapS}

\* the arguments of impute, coverage and simulate
Drivers == {VER, HAM}
Teams == {RBR, MER}
EventNames == {BAH, MON}
Compounds == {SOFT, MEDIUM, HARD}
TyreLives == {10, 25}
LapCounts == 0..MaxLaps

\* a DataFrame with the default RangeIndex 0..n-1
WithRangeIndex(rows) ==
    [i \in 1..Len(rows) |-> Assign(rows[i], [index |-> i - 1])]

TablesOf(R, n) ==
    UNION { {WithRangeIndex(s) : s \in [1..k -> R]} : k \in 0..n }

----------------------------------------------------------------------------
(* predictor/utils.py *)

\* load_data(source) for an in-memory DataFrame: a fresh copy
load_data(source) == source

\* df["LapTime"].quantile(OUTLIER_QUANTILE) of a non-empty column, by linear
\* interpolation between the two order statistics around position (n-1)*q;
\* returned in thousandths of a tick.
Quantile(s) ==
    LET n == Len(s)
        p == (n - 1) * OUTLIER_QUANTILE
        j == p \div 1000
        r == p % 1000
    IN  IF r = 0 THEN 1000 * Kth(s, j + 1)
        ELSE 1000 * Kth(s, j + 1) + r * (Kth(s, j + 2) - Kth(s, j + 1))

\* df.dropna(subset=REQUIRED_COLS)
Dropna(df) == SelectSeq(df, LAMBDA r : r.na \cap REQUIRED_COLS = {})

\* df[df["LapTime"] < df["LapTime"].quantile(OUTLIER_QUANTILE)]
\* (the quantile of an empty column is NaN, and selects nothing)
DropOutliers(df) ==
    IF df = <<>> THEN <<>>
    ELSE LET q == Quantile(Column(df, "LapTime", 1..Len(df)))
         IN  SelectSeq(df, LAMBDA r : 1000 * r.LapTime < q)

\* df.reset_index(drop=True)
ResetIndex(df) == [i \in 1..Len(df) |-> Assign(df[i], [index |-> i - 1])]

clean_data(df) ==
    LET kept  == Dropna(df)
        typed == [i \in 1..Len(kept) |->
                    Assign(kept[i], [TyreLife |-> PyInt(kept[i].TyreLife)])]
    IN  ResetIndex(DropOutliers(typed))

\* delta + best_lap, element by element
delta_to_laptime(delta, best_lap) ==
    [i \in 1..Len(delta) |-> delta[i] + best_lap[i]]

----------------------------------------------------------------------------
(* predictor/features.py *)

DRIVER_EVENT == {"Driver", "Event"}
STINT == {"Driver", "Event", "Compound"}

\* the positions of the rows in the group of row i under df.groupby(keys)
Group(df, keys, i) ==
    {j \in 1..Len(df) : \A k \in keys : df[j][k] = df[i][k]}

\* df.groupby(keys)[col].transform("median") at row i
GroupMedian(df, keys, col, i) == Median(Column(df, col, Group(df, keys, i)))

_add_normalisation(df) ==
    [i \in 1..Len(df) |->
        LET r  == df[i]
            m  == GroupMedian(df, DRIVER_EVENT, "LapTime", i)
            m1 == GroupMedian(df, DRIVER_EVENT, "Sector1Time", i)
            m2 == GroupMedian(df, DRIVER_EVENT, "Sector2Time", i)
            m3 == GroupMedian(df, DRIVER_EVENT, "Sector3Time", i)
        IN  Assign(r,
              [DriverTrackMedian |-> m,
               LapNorm |-> <<r.LapTime, m>>,
               Sector1Time_DriverTrackMedian |-> m1,
               Sector1Time_Norm |-> <<r.Sector1Time, m1>>,
               Sector2Time_DriverTrackMedian |-> m2,
               Sector2Time_Norm |-> <<r.Sector2Time, m2>>,
               Sector3Time_DriverTrackMedian |-> m3,
               Sector3Time_Norm |-> <<r.Sector3Time, m3>>])]

\* a target measured from the group's median lap instead of its best
_add_target_from_median(df) ==
    [i \in 1..Len(df) |->
        LET best == GroupMedian(df, DRIVER_EVENT, "LapTime", i)
        IN  Assign(df[i], [BestLap |-> best, LapDelta |-> df[i].LapTime - best])]

_add_target(df) ==
    [i \in 1..Len(df) |->
        LET best == Min(Column(df, "LapTime", Group(df, DRIVER_EVENT, i)))
        IN  Assign(df[i], [BestLap |-> best, LapDelta |-> df[i].LapTime - best])]

\* groupby(STINT).cumcount() at row i: the earlier rows of its Stint
Cumcount(df, i) == Cardinality({j \in Group(df, STINT, i) : j < i})

_add_tyre_fuel(df) ==
    [i \in 1..Len(df) |->
        LET lap    == Cumcount(df, i) + 1
            fuel   == 10000 + lap * FUEL_LOAD_FACTOR
            tyre   == 100000 + df[i].TyreLife * TYRE_DEGRADE_FACTOR
        IN  Assign(df[i],
              [StintLap |-> lap,
               FuelProxy |-> lap,
               FuelEffect |-> <<fuel, 10000>>,
               Tyre_Degrade |-> <<tyre, 100000>>,
               TyreFuel |-> << <<tyre, 100000>>, <<fuel, 10000>> >>,
               TyreFuelSq |-> << <<tyre, 100000>>, <<tyre, 100000>>, <<fuel, 10000>> >>])]

\* the position of the row that groupby(STINT).shift(1) / .diff() pairs with
\* row i: the nearest earlier row of the same Stint, 0 when there is none (NaN)
PrevInStint(df, i) ==
    LET earlier == {j \in Group(df, STINT, i) : j < i}
    IN  IF earlier = {} THEN 0
        ELSE CHOOSE j \in earlier : \A k \in earlier : k <= j

\* df[col].diff().fillna(0) at row i, without the grouping by Stint
DiffFromPreviousRow(df, col, i) ==
    IF i = 1 THEN 0 ELSE df[i][col] - df[i - 1][col]

\* groupby(STINT)[col].diff().fillna(0) at row i
Diff(df, col, i) ==
    LET j == PrevInStint(df, i)
    IN  IF j = 0 THEN 0 ELSE df[i][col] - df[j][col]

_add_lap_deltas(df) ==
    [i \in 1..Len(df) |->
        Assign(df[i],
          [LapDeltaPrev |-> Diff(df, "LapTime", i),
           Sector1Time_PrevDelta |-> Diff(df, "Sector1Time", i),
           Sector2Time_PrevDelta |-> Diff(df, "Sector2Time", i),
           Sector3Time_PrevDelta |-> Diff(df, "Sector3Time", i)])]

\* The window of shifted.rolling(ROLLING_WINDOW) at row i: the rolling runs
\* over the whole shifted Series in row order, so the window holds the
\* shifted cells of rows i-ROLLING_WINDOW+1 .. i. Each cell is given by the
\* position of the row its value was taken from (0: the cell is NaN).
\* <<>> when fewer than ROLLING_WINDOW rows end at i.
RollingWindow(df, i) ==
    IF i < ROLLING_WINDOW THEN <<>>
    ELSE [k \in 1..ROLLING_WINDOW |-> PrevInStint(df, i - ROLLING_WINDOW + k)]

\* the aggregate is a number (not NaN) iff the window is full and has no NaN
WindowValid(w) == w # <<>> /\ \A k \in 1..Len(w) : w[k] # 0

WindowValues(df, col, w) == [k \in 1..Len(w) |-> df[w[k]][col]]

\* shifted.rolling(ROLLING_WINDOW).mean().fillna(0) at row i
RollMean(df, col, i) ==
    LET w == RollingWindow(df, i)
    IN  IF WindowValid(w)
        THEN <<SumSeq(WindowValues(df, col, w)), ROLLING_WINDOW>>
        ELSE <<0, 1>>

\* shifted.rolling(ROLLING_WINDOW).std().fillna(0) at row i, carried as its
\* square, the sample variance (n*sum(x^2) - sum(x)^2) / (n*(n-1))
RollStd(df, col, i) ==
    LET w == RollingWindow(df, i)
        x == WindowValues(df, col, w)
        n == ROLLING_WINDOW
    IN  IF WindowValid(w)
        THEN <<n * SumSeq([k \in 1..n |-> x[k] * x[k]]) - SumSeq(x) * SumSeq(x),
               n * (n - 1)>>
        ELSE <<0, 1>>

_add_rolling_stats(df) ==
    [i \in 1..Len(df) |->
        Assign(df[i],
          [LapDelta_RollMean |-> RollMean(df, "LapDelta", i),
           LapDelta_RollStd |-> RollStd(df, "LapDelta", i),
           Sector1Time_RollMean |-> RollMean(df, "Sector1Time", i),
           Sector1Time_RollStd |-> RollStd(df, "Sector1Time", i),
           Sector2Time_RollMean |-> RollMean(df, "Sector2Time", i),
           Sector2Time_RollStd |-> RollStd(df, "Sector2Time", i),
           Sector3Time_RollMean |-> RollMean(df, "Sector3Time", i),
           Sector3Time_RollStd |-> RollStd(df, "Sector3Time", i)])]

_add_sector_ratios(df) ==
    [i \in 1..Len(df) |->
        Assign(df[i],
          [S1_Ratio |-> <<df[i].Sector1Time, df[i].LapTime>>,
           S2_Ratio |-> <<df[i].Sector2Time, df[i].LapTime>>,
           S3_Ratio |-> <<df[i].Sector3Time, df[i].LapTime>>])]

\* build_features(df): the stages assign columns on df itself and return it
build_features(df) ==
    _add_sector_ratios(
      _add_rolling_stats(
        _add_lap_deltas(
          _add_tyre_fuel(
            _add_target(
              _add_normalisation(df))))))

----------------------------------------------------------------------------
(* predictor/imputer.py *)

_IMPUTE_COLS == <<"LapTime", "Sector1Time", "Sector2Time", "Sector3Time">>

\* the columns fit and impute loop over: _IMPUTE_COLS + ["BestLap"]
ImputedCols == _IMPUTE_COLS \o <<"BestLap">>

_FALLBACK_CHAIN ==
    << <<"Driver", "Event", "Compound">>,
       <<"Driver", "Compound">>,
       <<"Team", "Event", "Compound">>,
       <<"Event", "Compound">>,
       <<"Compound">> >>

\* A dict key is a str or a tuple of strs: [tuple, items], items being the
\* one str or the members of the tuple.
StrKey(x) == [tuple |-> FALSE, items |-> <<x>>]
TupleKey(xs) == [tuple |-> TRUE, items |-> xs]

\* k[i] for a dict key k: the i-th member of a tuple, the i-th character of a str
PyIndex(k, i) ==
    IF k.tuple THEN k.items[i + 1] ELSE <<k.items[1][i + 1]>>

\* The label of row r's group in df.groupby(list(keys))[col].median(): the
\* result is indexed by a MultiIndex (tuples) for several keys and by a plain
\* Index (the values themselves) for a single key; to_dict() keeps the labels.
GroupLabel(keys, r) ==
    IF Len(keys) = 1 THEN StrKey(r[keys[1]])
    ELSE TupleKey([k \in 1..Len(keys) |-> r[keys[k]]])

\* df.groupby(list(keys))[col].median().to_dict()
GroupMedians(df, keys, col) ==
    LET labels == {GroupLabel(keys, df[i]) : i \in 1..Len(df)}
    IN  [l \in labels |->
            Median(Column(df, col,
                          {i \in 1..Len(df) : GroupLabel(keys, df[i]) = l}))]

\* SimulatorImputer(): no tables
NewImputer == [_tables |-> [c \in {} |-> 0], _global |-> [c \in {} |-> 0]]

\* SimulatorImputer.fit(df) on a non-empty feature-engineered DataFrame
ImputerFit(df) ==
    [_tables |-> [col \in Range(ImputedCols) |->
                    [keys \in Range(_FALLBACK_CHAIN) |-> GroupMedians(df, keys, col)]],
     _global |-> [col \in Range(ImputedCols) |->
                    Median(Column(df, col, 1..Len(df)))]]

\* lookup_key of impute
ImputeLookupKey(keys, Driver, Team, Event, Compound) ==
    CASE keys = <<"Driver", "Event", "Compound">> -> TupleKey(<<Driver, Event, Compound>>)
      [] keys = <<"Driver", "Compound">> -> TupleKey(<<Driver, Compound>>)
      [] keys = <<"Team", "Event", "Compound">> -> TupleKey(<<Team, Event, Compound>>)
      [] keys = <<"Event", "Compound">> -> TupleKey(<<Event, Compound>>)
      [] keys = <<"Compound">> -> TupleKey(<<Compound>>)

\* The walk of impute over _FALLBACK_CHAIN for one column: the position in the
\* chain of the first level whose dict has the lookup key, 0 when none has
\* (value is None after the loop).
RECURSIVE WalkFrom(_, _, _, _, _, _, _)
WalkFrom(imp, col, Driver, Team, Event, Compound, n) ==
    IF n > Len(_FALLBACK_CHAIN) THEN 0
    ELSE LET keys == _FALLBACK_CHAIN[n]
             key  == ImputeLookupKey(keys, Driver, Team, Event, Compound)
         IN  IF key \in DOMAIN imp._tables[col][keys] THEN n
             ELSE WalkFrom(imp, col, Driver, Team, Event, Compound, n + 1)

\* a walk that starts at the second level of the chain
ImputeLevelFromSecond(imp, col, Driver, Team, Event, Compound) ==
    WalkFrom(imp, col, Driver, Team, Event, Compound, 2)

ImputeLevel(imp, col, Driver, Team, Event, Compound) ==
    WalkFrom(imp, col, Driver, Team, Event, Compound, 1)

\* imputed[col]
ImputedValue(imp, col, Driver, Team, Event, Compound) ==
    LET n == ImputeLevel(imp, col, Driver, Team, Event, Compound)
    IN  IF n = 0 THEN imp._global[col]
        ELSE imp._tables[col][_FALLBACK_CHAIN[n]]
                [ImputeLookupKey(_FALLBACK_CHAIN[n], Driver, Team, Event, Compound)]

\* a single warning, for the first column left None
ImputeWarningsOnce(imp, Driver, Team, Event, Compound) ==
    LET missed == SelectSeq(ImputedCols, LAMBDA col :
                      WalkFrom(imp, col, Driver, Team, Event, Compound, 1) = 0)
    IN  IF missed = <<>> THEN <<>>
        ELSE <<[column |-> missed[1], value |-> imp._global[missed[1]]]>>

\* the UserWarnings of impute, in order: one per column left None by the walk,
\* naming the column and the global median used
ImputeWarnings(imp, Driver, Team, Event, Compound) ==
    LET missed == SelectSeq(ImputedCols, LAMBDA col :
                      ImputeLevel(imp, col, Driver, Team, Event, Compound) = 0)
    IN  [k \in 1..Len(missed) |->
            [column |-> missed[k], value |-> imp._global[missed[k]]]]

\* range(n): empty for n <= 0
PyRange(n) == IF n <= 0 THEN <<>> ELSE [i \in 1..n |-> i - 1]

\* the rows of impute: pd.DataFrame(rows), with the default RangeIndex
ImputeRows(imp, Driver, Team, Event, Compound, TyreLife, n_laps) ==
    LET is == PyRange(n_laps)
    IN  [k \in 1..Len(is) |->
            [index |-> k - 1, na |-> {},
             Driver |-> Driver, Team |-> Team, Event |-> Event, Compound |-> Compound,
             TyreLife |-> PyInt(TyreLife) + 10 * is[k],
             LapTime |-> ImputedValue(imp, "LapTime", Driver, Team, Event, Compound),
             Sector1Time |-> ImputedValue(imp, "Sector1Time", Driver, Team, Event, Compound),
             Sector2Time |-> ImputedValue(imp, "Sector2Time", Driver, Team, Event, Compound),
             Sector3Time |-> ImputedValue(imp, "Sector3Time", Driver, Team, Event, Compound),
             BestLap |-> ImputedValue(imp, "BestLap", Driver, Team, Event, Compound)]]

known_drivers(imp) ==
    Sorted({PyIndex(k, 0) : k \in DOMAIN imp._tables["LapTime"][<<"Driver", "Compound">>]})

known_events(imp) ==
    Sorted({PyIndex(k, 1) :
              k \in DOMAIN imp._tables["LapTime"][<<"Driver", "Event", "Compound">>]})

known_compounds(imp) ==
    Sorted({PyIndex(k, 0) : k \in DOMAIN imp._tables["LapTime"][<<"Compound">>]})

\* lookup_key of coverage: the Team level is looked up with the Driver
CoverageLookupKey(keys, Driver, Event, Compound) ==
    CASE keys = <<"Driver", "Event", "Compound">> -> TupleKey(<<Driver, Event, Compound>>)
      [] keys = <<"Driver", "Compound">> -> TupleKey(<<Driver, Compound>>)
      [] keys = <<"Team", "Event", "Compound">> -> TupleKey(<<Driver, Event, Compound>>)
      [] keys = <<"Event", "Compound">> -> TupleKey(<<Event, Compound>>)
      [] keys = <<"Compound">> -> TupleKey(<<Compound>>)

\* coverage: the position in the chain of the level it reports, 0 for
\* "Global median fallback"
RECURSIVE CoverageFrom(_, _, _, _, _)
CoverageFrom(imp, Driver, Event, Compound, n) ==
    IF n > Len(_FALLBACK_CHAIN) THEN 0
    ELSE LET keys == _FALLBACK_CHAIN[n]
             key  == CoverageLookupKey(keys, Driver, Event, Compound)
         IN  IF key \in DOMAIN imp._tables["LapTime"][keys] THEN n
             ELSE CoverageFrom(imp, Driver, Event, Compound, n + 1)

coverage(imp, Driver, Event, Compound) == CoverageFrom(imp, Driver, Event, Compound, 1)

----------------------------------------------------------------------------
(* The regressor: an opaque collaborator with fit / predict /               *)
(* feature_importances_. It is stood for by the constant predictor of the   *)
(* median training target (what a MAE-objective booster yields when it      *)
(* cannot split), with importances that are a permutation fixed by it.      *)

NewRegressor == [fitted |-> FALSE, bias |-> 0]

RegressorFit(y_train) == [fitted |-> TRUE, bias |-> Median(y_train)]

RegressorPredict(model, X) == [i \in 1..Len(X) |-> model.bias]

RegressorImportances(model) ==
    [i \in 1..Len(FEATURES) |-> (7 * i + model.bias) % Len(FEATURES)]

----------------------------------------------------------------------------
(* predictor/model.py *)

\* F1LapPredictor(test_size=...)
NewPredictor(test_size) ==
    [test_size |-> test_size,
     model |-> NewRegressor,
     _is_fitted |-> FALSE,
     train_mae_ |-> None,
     test_mae_ |-> None,
     feature_importance_ |-> None,
     imputer_ |-> None]

\* pd.Series(importances, index=FEATURES).sort_values(ascending=False)
SortedImportances(imp) ==
    LET n == Len(FEATURES)
        \* how many importances are above the i-th (as an explicit sequence)
        above == [i \in 1..n |-> Cardinality({j \in 1..n : imp[j] > imp[i]})] \o <<>>
    IN  [k \in 1..n |->
            LET i == CHOOSE i \in 1..n : above[i] = k - 1
            IN  [feature |-> FEATURES[i], importance |-> imp[i]]]

\* the distinct values of df["Event"]
Events(df) == {df[i].Event : i \in 1..Len(df)}

\* the number of test groups of GroupShuffleSplit(test_size=...): ceil(test_size * n)
NTest(test_size, n) == (test_size * n + 99) \div 100

\* the splits of a ShuffleSplit over the rows, which ignores the groups
SplitsByRow(df, test_size) ==
    LET n == Len(df)
    IN  IF n = 0 \/ n - NTest(test_size, n) <= 0 THEN {}
        ELSE { [train_idx |-> (1..n) \ T, test_idx |-> T] :
               T \in {S \in SUBSET (1..n) : Cardinality(S) = NTest(test_size, n)} }

\* The splits GroupShuffleSplit(n_splits=1, test_size, random_state) can
\* yield over the random states: the test side is any NTest of the Event
\* groups, the train side the others; each side holds the positions of the
\* rows of its groups. No split exists (split raises ValueError) when there
\* is no row or the train side would be empty.
Splits(df, test_size) ==
    LET G == Events(df)
        n == Cardinality(G)
    IN  IF n = 0 \/ n - NTest(test_size, n) <= 0 THEN {}
        ELSE { [train_idx |-> {i \in 1..Len(df) : df[i].Event \notin T},
                test_idx  |-> {i \in 1..Len(df) : df[i].Event \in T}] :
               T \in {S \in SUBSET G : Cardinality(S) = NTest(test_size, n)} }

\* mean_absolute_error(y_true, y_pred) as <<sum of |error|, n>>
mean_absolute_error(y_true, y_pred) ==
    <<SumSeq([i \in 1..Len(y_true) |->
                IF y_true[i] >= y_pred[i] THEN y_true[i] - y_pred[i]
                ELSE y_pred[i] - y_true[i]]),
      Len(y_true)>>

\* the rows of df at the positions P, in positional order (df.iloc[idx])
RECURSIVE IlocAt(_, _, _)
IlocAt(df, P, i) ==
    IF i > Len(df) THEN <<>>
    ELSE (IF i \in P THEN <<df[i]>> ELSE <<>>) \o IlocAt(df, P, i + 1)

Iloc(df, P) == IlocAt(df, P, 1)

\* the absolute lap times the fitted model predicts for the rows of df
PredictedLapTimes(model, df) ==
    delta_to_laptime(RegressorPredict(model, df),
                     Column(df, "BestLap", 1..Len(df)))

\* mean_absolute_error(df.iloc[idx]["LapTime"], delta_to_laptime(predict, BestLap))
PartitionMAE(model, df, idx) ==
    LET part == Iloc(df, idx)
    IN  mean_absolute_error(Column(part, "LapTime", 1..Len(part)),
                            PredictedLapTimes(model, part))

\* a fit that sets the flag without having built the imputer
FittedWithoutImputer(self, df, sp) ==
    LET model == RegressorFit(Column(df, "LapDelta", sp.train_idx))
    IN  [test_size |-> self.test_size,
         model |-> model,
         train_mae_ |-> Some(PartitionMAE(model, df, sp.train_idx)),
         test_mae_ |-> Some(PartitionMAE(model, df, sp.test_idx)),
         feature_importance_ |-> Some(SortedImportances(RegressorImportances(model))),
         imputer_ |-> self.imputer_,
         _is_fitted |-> TRUE]

\* the predictor after fit(source) has run to its end with the split sp
Fitted(self, df, sp) ==
    LET model == RegressorFit(Column(df, "LapDelta", sp.train_idx))
    IN  [test_size |-> self.test_size,
         model |-> model,
         train_mae_ |-> Some(PartitionMAE(model, df, sp.train_idx)),
         test_mae_ |-> Some(PartitionMAE(model, df, sp.test_idx)),
         feature_importance_ |-> Some(SortedImportances(RegressorImportances(model))),
         imputer_ |-> Some(ImputerFit(df)),
         _is_fitted |-> TRUE]

\* pd.Series(values, index=labels)
Series(labels, values) ==
    [k \in 1..Len(values) |-> [index |-> labels[k], value |-> values[k]]]

\* series.head(n)
Head_(s, n) == SubSeq(s, 1, IF n < Len(s) THEN n ELSE Len(s))

----------------------------------------------------------------------------
(* The calls *)

NoCall == [op |-> "none", args |-> <<>>, outcome |-> "none", value |-> <<>>,
           warnings |-> <<>>]

Returned(op, args, value, warnings) ==
    [op |-> op, args |-> args, outcome |-> "returned", value |-> value,
     warnings |-> warnings]

Raised(op, args, error, warnings) ==
    [op |-> op, args |-> args, outcome |-> error, value |-> <<>>,
     warnings |-> warnings]

\* the caller is between two calls
Idle == call.op = "none"

\* the caller has looked at the outcome of the last call and drops it
Discard ==
    /\ ~Idle
    /\ call' = NoCall
    /\ UNCHANGED <<frame, imputer, predictor>>

\* every required column of every row of df has a value
Complete(df) == \A i \in 1..Len(df) : df[i].na \cap REQUIRED_COLS = {}

----------------------------------------------------------------------------
(* clean_data and build_features, called on the caller's table *)

InitFeatures ==
    /\ frame \in TablesOf(FeatureLaps, MaxRows)
    /\ imputer = NewImputer
    /\ predictor = NewPredictor(DEFAULT_TEST_SIZE)
    /\ call = NoCall

\* df = clean_data(df)
CleanData ==
    /\ Idle
    /\ frame' = clean_data(frame)
    /\ call' = Returned("clean_data", [df |-> frame], frame', <<>>)
    /\ UNCHANGED <<imputer, predictor>>

\* out = build_features(df), on a table with the required columns present:
\* the stages assign the new columns on df itself, and df is what is returned
BuildFeatures ==
    /\ Idle
    /\ Complete(frame)
    /\ frame' = build_features(frame)
    /\ call' = Returned("build_features", [df |-> frame], frame', <<>>)
    /\ UNCHANGED <<imputer, predictor>>

NextFeatures == CleanData \/ BuildFeatures \/ Discard

SpecFeatures == InitFeatures /\ [][NextFeatures]_vars

----------------------------------------------------------------------------
(* A SimulatorImputer, fitted on a feature-engineered table *)

TrainFrames ==
    {build_features(t) : t \in TablesOf(TrainLaps, MaxTrainRows) \ {<<>>}}

InitImputer ==
    /\ frame \in TrainFrames
    /\ imputer = NewImputer
    /\ predictor = NewPredictor(DEFAULT_TEST_SIZE)
    /\ call = NoCall

ImputerFitted(imp) == DOMAIN imp._tables # {}

\* imputer.fit(df)
Imputer_fit ==
    /\ Idle
    /\ imputer' = ImputerFit(frame)
    /\ call' = Returned("fit", <<>>, <<>>, <<>>)
    /\ UNCHANGED <<frame, predictor>>

\* imputer.impute(Driver, Team, Event, Compound, TyreLife, n_laps); before fit
\* self._tables[col] raises KeyError
Imputer_impute ==
    \E d \in Drivers, t \in Teams, e \in EventNames, c \in Compounds,
       life \in TyreLives, n \in LapCounts :
        LET args == [Driver |-> d, Team |-> t, Event |-> e, Compound |-> c,
                     TyreLife |-> life, n_laps |-> n]
        IN  /\ Idle
            /\ call' = IF ImputerFitted(imputer)
                       THEN Returned("impute", args,
                                     ImputeRows(imputer, d, t, e, c, life, n),
                                     ImputeWarnings(imputer, d, t, e, c))
                       ELSE Raised("impute", args, "KeyError", <<>>)
            /\ UNCHANGED <<frame, imputer, predictor>>

\* imputer.coverage(Driver, Event, Compound)
Imputer_coverage ==
    \E d \in Drivers, e \in EventNames, c \in Compounds :
        LET args == [Driver |-> d, Event |-> e, Compound |-> c]
        IN  /\ Idle
            /\ call' = IF ImputerFitted(imputer)
                       THEN Returned("coverage", args, coverage(imputer, d, e, c), <<>>)
                       ELSE Raised("coverage", args, "KeyError", <<>>)
            /\ UNCHANGED <<frame, imputer, predictor>>

Imputer_known_drivers ==
    /\ Idle
    /\ call' = IF ImputerFitted(imputer)
               THEN Returned("known_drivers", <<>>, known_drivers(imputer), <<>>)
               ELSE Raised("known_drivers", <<>>, "KeyError", <<>>)
    /\ UNCHANGED <<frame, imputer, predictor>>

Imputer_known_events ==
    /\ Idle
    /\ call' = IF ImputerFitted(imputer)
               THEN Returned("known_events", <<>>, known_events(imputer), <<>>)
               ELSE Raised("known_events", <<>>, "KeyError", <<>>)
    /\ UNCHANGED <<frame, imputer, predictor>>

Imputer_known_compounds ==
    /\ Idle
    /\ call' = IF ImputerFitted(imputer)
               THEN Returned("known_compounds", <<>>, known_compounds(imputer), <<>>)
               ELSE Raised("known_compounds", <<>>, "KeyError", <<>>)
    /\ UNCHANGED <<frame, imputer, predictor>>

NextImputer ==
    \/ Imputer_fit
    \/ Imputer_impute
    \/ Imputer_coverage
    \/ Imputer_known_drivers
    \/ Imputer_known_events
    \/ Imputer_known_compounds
    \/ Discard

SpecImputer == InitImputer /\ [][NextImputer]_vars

----------------------------------------------------------------------------
(* An F1LapPredictor and the data set its caller holds *)

TestSizes == {DEFAULT_TEST_SIZE}

\* the top_n of feature_importance: a short head and the default
TopNs == {2, 20}

Init ==
    /\ frame \in TablesOf(DataLaps, MaxData)
    /\ imputer = NewImputer
    /\ predictor \in {NewPredictor(ts) : ts \in TestSizes}
    /\ call = NoCall

\* the tables the caller passes as source: the first k rows of its data set
Sources == {SubSeq(frame, 1, k) : k \in 0..Len(frame)}

\* clean_data(load_data(source)) followed by build_features
Prepared(source) == build_features(clean_data(load_data(source)))

\* _check_fitted() passes: it raises RuntimeError unless self._is_fitted.
\* (A method that got past it on an instance without state would fail on the
\* state it misses: NotFittedError from the regressor, AttributeError on None.)
CheckAlwaysPasses(self) == TRUE

CheckFitted(self) == self._is_fitted

\* predictor.fit(source, random_state). The split raises ValueError when it
\* cannot be made, before any field is assigned; otherwise fit runs to its end.
Fit ==
    \E source \in Sources :
      \E df \in {Prepared(source)} :
        \E splits \in {Splits(df, predictor.test_size)} :
            /\ Idle
            /\ IF splits = {}
               THEN /\ call' = Raised("fit", [source |-> source], "ValueError", <<>>)
                    /\ UNCHANGED predictor
               ELSE \E sp \in splits :
                    /\ predictor' = Fitted(predictor, df, sp)
                    /\ call' = Returned("fit", [source |-> source],
                                        [df |-> df, train_idx |-> sp.train_idx,
                                         test_idx |-> sp.test_idx], <<>>)
            /\ UNCHANGED <<frame, imputer>>

\* predictor.predict(source); the regressor rejects an empty feature matrix
Predict ==
    \E source \in Sources :
        \E df \in {Prepared(source)} :
            /\ Idle
            /\ call' =
                 IF ~CheckFitted(predictor)
                 THEN Raised("predict", [source |-> source], "RuntimeError", <<>>)
                 ELSE IF ~predictor.model.fitted
                 THEN Raised("predict", [source |-> source], "NotFittedError", <<>>)
                 ELSE IF df = <<>>
                 THEN Raised("predict", [source |-> source], "ValueError", <<>>)
                 ELSE Returned("predict", [source |-> source],
                               Series(Column(df, "index", 1..Len(df)),
                                      PredictedLapTimes(predictor.model, df)),
                               <<>>)
            /\ UNCHANGED <<frame, imputer, predictor>>

\* predictor.evaluate(source)
Evaluate ==
    \E source \in Sources :
        \E df \in {Prepared(source)} :
            /\ Idle
            /\ call' =
                 IF ~CheckFitted(predictor)
                 THEN Raised("evaluate", [source |-> source], "RuntimeError", <<>>)
                 ELSE IF ~predictor.model.fitted
                 THEN Raised("evaluate", [source |-> source], "NotFittedError", <<>>)
                 ELSE IF df = <<>>
                 THEN Raised("evaluate", [source |-> source], "ValueError", <<>>)
                 ELSE Returned("evaluate", [source |-> source],
                               mean_absolute_error(
                                   Column(df, "LapTime", 1..Len(df)),
                                   PredictedLapTimes(predictor.model, df)),
                               <<>>)
            /\ UNCHANGED <<frame, imputer, predictor>>

\* a feature_importance that keeps the head it returns as the ranking
FeatureImportanceKeepsHead ==
    \E top_n \in TopNs :
        /\ Idle
        /\ IF ~CheckFitted(predictor)
           THEN /\ call' = Raised("feature_importance", [top_n |-> top_n],
                                  "RuntimeError", <<>>)
                /\ UNCHANGED predictor
           ELSE /\ predictor' =
                     [predictor EXCEPT !.feature_importance_ =
                         Some(Head_(predictor.feature_importance_[1], top_n))]
                /\ call' = Returned("feature_importance", [top_n |-> top_n],
                                    predictor'.feature_importance_[1], <<>>)
        /\ UNCHANGED <<frame, imputer>>

\* predictor.feature_importance(top_n)
FeatureImportance ==
    \E top_n \in TopNs :
        /\ Idle
        /\ call' =
             IF ~CheckFitted(predictor)
             THEN Raised("feature_importance", [top_n |-> top_n], "RuntimeError", <<>>)
             ELSE IF predictor.feature_importance_ = None
             THEN Raised("feature_importance", [top_n |-> top_n], "AttributeError", <<>>)
             ELSE Returned("feature_importance", [top_n |-> top_n],
                           Head_(predictor.feature_importance_[1], top_n), <<>>)
        /\ UNCHANGED <<frame, imputer, predictor>>

\* predictor.simulate(Driver, Team, Event, Compound, TyreLife, n_laps).
\* With no row, impute returns a DataFrame without columns and build_features
\* raises KeyError on its first groupby.
Simulate ==
    \E d \in Drivers, t \in Teams, e \in EventNames, c \in Compounds,
       life \in TyreLives, n \in LapCounts :
        LET args == [Driver |-> d, Team |-> t, Event |-> e, Compound |-> c,
                     TyreLife |-> life, n_laps |-> n]
        IN  /\ Idle
            /\ IF ~CheckFitted(predictor)
               THEN call' = Raised("simulate", args, "RuntimeError", <<>>)
               ELSE IF predictor.imputer_ = None
               THEN call' = Raised("simulate", args, "AttributeError", <<>>)
               ELSE \E imp \in {predictor.imputer_[1]} :
                    \E df_sim \in {ImputeRows(imp, d, t, e, c, life, n)} :
                    \E warned \in {ImputeWarnings(imp, d, t, e, c)} :
                      IF df_sim = <<>>
                      THEN call' = Raised("simulate", args, "KeyError", warned)
                      ELSE \E df \in {build_features(df_sim)} :
                           \E index \in {[k \in 1..Len(PyRange(n)) |->
                                            PyInt(life) + 10 * PyRange(n)[k]]} :
                             call' = Returned("simulate", args,
                                        Series(index,
                                               PredictedLapTimes(predictor.model, df)),
                                        warned)
            /\ UNCHANGED <<frame, imputer, predictor>>

KnownDrivers ==
    /\ Idle
    /\ call' = IF ~CheckFitted(predictor)
               THEN Raised("known_drivers", <<>>, "RuntimeError", <<>>)
               ELSE IF predictor.imputer_ = None
               THEN Raised("known_drivers", <<>>, "AttributeError", <<>>)
               ELSE Returned("known_drivers", <<>>,
                             known_drivers(predictor.imputer_[1]), <<>>)
    /\ UNCHANGED <<frame, imputer, predictor>>

KnownEvents ==
    /\ Idle
    /\ call' = IF ~CheckFitted(predictor)
               THEN Raised("known_events", <<>>, "RuntimeError", <<>>)
               ELSE IF predictor.imputer_ = None
               THEN Raised("known_events", <<>>, "AttributeError", <<>>)
               ELSE Returned("known_events", <<>>,
                             known_events(predictor.imputer_[1]), <<>>)
    /\ UNCHANGED <<frame, imputer, predictor>>

KnownCompounds ==
    /\ Idle
    /\ call' = IF ~CheckFitted(predictor)
               THEN Raised("known_compounds", <<>>, "RuntimeError", <<>>)
               ELSE IF predictor.imputer_ = None
               THEN Raised("known_compounds", <<>>, "AttributeError", <<>>)
               ELSE Returned("known_compounds", <<>>,
                             known_compounds(predictor.imputer_[1]), <<>>)
    /\ UNCHANGED <<frame, imputer, predictor>>

\* predictor.save(path): pickles the instance to a file, which is no field of it
Save ==
    /\ Idle
    /\ call' = IF ~CheckFitted(predictor)
               THEN Raised("save", <<>>, "RuntimeError", <<>>)
               ELSE Returned("save", <<>>, <<>>, <<>>)
    /\ UNCHANGED <<frame, imputer, predictor>>

\* predictor.imputer_.coverage(Driver, Event, Compound), as the command line
\* calls it; imputer_ is None until fit has run
Coverage ==
    \E d \in Drivers, e \in EventNames, c \in Compounds :
        LET args == [Driver |-> d, Event |-> e, Compound |-> c]
        IN  /\ Idle
            /\ call' = IF predictor.imputer_ = None
                       THEN Raised("coverage", args, "AttributeError", <<>>)
                       ELSE Returned("coverage", args,
                                     coverage(predictor.imputer_[1], d, e, c), <<>>)
            /\ UNCHANGED <<frame, imputer, predictor>>

\* predictor.imputer_.impute(Driver, Team, Event, Compound, TyreLife, n_laps)
Impute ==
    \E d \in Drivers, t \in Teams, e \in EventNames, c \in Compounds,
       life \in TyreLives, n \in LapCounts :
        LET args == [Driver |-> d, Team |-> t, Event |-> e, Compound |-> c,
                     TyreLife |-> life, n_laps |-> n]
        IN  /\ Idle
            /\ IF predictor.imputer_ = None
               THEN call' = Raised("impute", args, "AttributeError", <<>>)
               ELSE \E imp \in {predictor.imputer_[1]} :
                      call' = Returned("impute", args,
                                       ImputeRows(imp, d, t, e, c, life, n),
                                       ImputeWarnings(imp, d, t, e, c))
            /\ UNCHANGED <<frame, imputer, predictor>>

Next ==
    \/ Fit
    \/ Predict
    \/ Evaluate
    \/ FeatureImportance
    \/ Simulate
    \/ KnownDrivers
    \/ KnownEvents
    \/ KnownCompounds
    \/ Save
    \/ Coverage
    \/ Impute
    \/ Discard

Spec == Init /\ [][Next]_vars

----------------------------------------------------------------------------
(* Training alone, on data sets of up to three Events *)

\* the holdout fractions (in hundredths): the default, a half, and one that
\* leaves no Event to train on
HoldoutFractions == {DEFAULT_TEST_SIZE, 50, 90}

\* the data set has MaxFit rows; fit is called on its first k rows
InitFit ==
    /\ frame \in {WithRangeIndex(rows) : rows \in [1..MaxFit -> FitLaps]}
    /\ imputer = NewImputer
    /\ predictor \in {NewPredictor(ts) : ts \in HoldoutFractions}
    /\ call = NoCall

NextFit == Fit \/ Discard

SpecFit == InitFit /\ [][NextFit]_vars

----------------------------------------------------------------------------
(* Training and simulation, on data sets with several laps per Stint *)

\* the data set has MaxSim rows; fit is called on its first k rows
InitSimulate ==
    /\ frame \in {WithRangeIndex(rows) : rows \in [1..MaxSim -> SimLaps]}
    /\ imputer = NewImputer
    /\ predictor = NewPredictor(DEFAULT_TEST_SIZE)
    /\ call = NoCall

NextSimulate == Fit \/ Simulate \/ Discard

SpecSimulate == InitSimulate /\ [][NextSimulate]_vars

----------------------------------------------------------------------------
(* Claims *)

InferenceOps ==
    {"predict", "evaluate", "simulate", "feature_importance",
     "known_drivers", "known_events", "known_compounds", "save"}

\* C1: on an instance that is not fitted, every call of predict, evaluate,
\* simulate, feature_importance, known_drivers, known_events, known_compounds
\* and save fails with the unfitted-model error (RuntimeError) and leaves the
\* instance unfitted with all its fields as they were.
C1_UnfittedCallsFail ==
    [][ (Idle /\ ~predictor._is_fitted /\ call'.op \in InferenceOps)
          => (call'.outcome = "RuntimeError" /\ predictor' = predictor) ]_vars

\* C1 witness: a simulate call on an unfitted instance has raised RuntimeError
C1_Witness ==
    /\ ~predictor._is_fitted
    /\ call.op = "simulate"
    /\ call.outcome = "RuntimeError"

\* the rows of the training frame in the group of the call's arguments under keys
TrainingGroup(keys) ==
    {i \in 1..Len(frame) : \A k \in Range(keys) : frame[i][k] = call.args[k]}

\* the median of column col over the training rows at the positions P
TrainingMedian(col, P) == Median(Column(frame, col, P))

ImputeReturned ==
    /\ call.op = "impute"
    /\ call.outcome = "returned"

\* C2: when the (Driver, Event, Compound) of the input occurred in the rows
\* the imputer was fitted on, every imputed column of every row impute returns
\* is the training median of that (Driver, Event, Compound) group.
C2_MostSpecificLevelWins ==
    (ImputeReturned /\ TrainingGroup(_FALLBACK_CHAIN[1]) # {})
      => \A k \in 1..Len(call.value) : \A col \in Range(ImputedCols) :
            call.value[k][col] = TrainingMedian(col, TrainingGroup(_FALLBACK_CHAIN[1]))

\* C2 witness: impute returned rows for an input whose (Driver, Event, Compound)
\* was in training, where the (Driver, Compound) median of LapTime is another value
C2_Witness ==
    /\ ImputeReturned
    /\ call.value # <<>>
    /\ TrainingGroup(_FALLBACK_CHAIN[1]) # {}
    /\ TrainingMedian("LapTime", TrainingGroup(_FALLBACK_CHAIN[1]))
         # TrainingMedian("LapTime", TrainingGroup(_FALLBACK_CHAIN[2]))

\* the first level of the chain whose group for the input occurred in training
\* (0: none did)
FirstTrainedLevel ==
    IF \A n \in 1..Len(_FALLBACK_CHAIN) : TrainingGroup(_FALLBACK_CHAIN[n]) = {}
    THEN 0
    ELSE CHOOSE n \in 1..Len(_FALLBACK_CHAIN) :
            /\ TrainingGroup(_FALLBACK_CHAIN[n]) # {}
            /\ \A m \in 1..(n - 1) : TrainingGroup(_FALLBACK_CHAIN[m]) = {}

\* C3: impute returns, for every imputed column, the training median of the
\* first level of the chain whose group for the input occurred in training,
\* and emits no global-median warning when there is such a level (as when
\* only the Compound occurred in training).
C3_FirstTrainedLevelWins ==
    (ImputeReturned /\ FirstTrainedLevel # 0)
      => /\ call.warnings = <<>>
         /\ \A k \in 1..Len(call.value) : \A col \in Range(ImputedCols) :
               call.value[k][col] =
                 TrainingMedian(col, TrainingGroup(_FALLBACK_CHAIN[FirstTrainedLevel]))

\* C4: when the input matches no training group at any of the five levels,
\* impute on a fitted imputer returns, every imputed column is the column's
\* global median, and there is exactly one warning per imputed column, naming
\* the column and the value used.
C4_GlobalFallbackWarns ==
    (call.op = "impute" /\ ImputerFitted(imputer) /\ FirstTrainedLevel = 0)
      => /\ call.outcome = "returned"
         /\ \A k \in 1..Len(call.value) : \A col \in Range(ImputedCols) :
               call.value[k][col] = TrainingMedian(col, 1..Len(frame))
         /\ Len(call.warnings) = Len(ImputedCols)
         /\ \A j \in 1..Len(ImputedCols) :
               /\ call.warnings[j].column = ImputedCols[j]
               /\ call.warnings[j].value = TrainingMedian(ImputedCols[j], 1..Len(frame))

\* C4 witness: impute returned rows for a Compound that is not in training
C4_Witness ==
    /\ ImputeReturned
    /\ call.value # <<>>
    /\ FirstTrainedLevel = 0

\* C5: a call of impute with n_laps < 1 on a fitted imputer is rejected with a
\* validation error (ValueError); it returns nothing.
C5_NoLapsRejected ==
    (call.op = "impute" /\ ImputerFitted(imputer) /\ call.args.n_laps < 1)
      => call.outcome = "ValueError"

\* the last call was build_features, and frame is the table it returned
Built == call.op = "build_features"

\* C6: every rolling mean/std of a lap is computed only from earlier laps of
\* the lap's own Stint: the window it aggregates holds neither the lap's own
\* value nor a value of a row of another Stint, whatever the row order.
C6_WindowWithinStint ==
    Built =>
      \A i \in 1..Len(frame) :
        LET w == RollingWindow(frame, i)
        IN  WindowValid(w) =>
              \A k \in 1..Len(w) : w[k] < i /\ w[k] \in Group(frame, STINT, i)

RollColumns ==
    {"LapDelta_RollMean", "LapDelta_RollStd",
     "Sector1Time_RollMean", "Sector1Time_RollStd",
     "Sector2Time_RollMean", "Sector2Time_RollStd",
     "Sector3Time_RollMean", "Sector3Time_RollStd"}

\* C7: after build_features, on every row with fewer than ROLLING_WINDOW
\* earlier laps in its own Stint every *_RollMean and *_RollStd is exactly 0.
C7_ShortHistoryIsZero ==
    Built =>
      \A i \in 1..Len(frame) :
        Cumcount(frame, i) < ROLLING_WINDOW =>
          \A col \in RollColumns : frame[i][col][1] = 0

\* C8: predict returns exactly one prediction for every row of its input that
\* has all required fields, keyed by the index of that row in the input.
C8_OnePredictionPerRow ==
    (call.op = "predict" /\ call.outcome = "returned") =>
      LET source == call.args.source
          complete == {i \in 1..Len(source) : source[i].na \cap REQUIRED_COLS = {}}
      IN  /\ Len(call.value) = Cardinality(complete)
          /\ {call.value[k].index : k \in 1..Len(call.value)}
               = {source[i].index : i \in complete}

\* C9: after fit, known_drivers, known_events and known_compounds return the
\* sorted list of exactly the distinct Driver, Event and Compound values of
\* the rows the imputer was fitted on.
C9_KnownValues ==
    call.outcome = "returned" =>
      /\ call.op = "known_drivers" =>
            call.value = Sorted({frame[i].Driver : i \in 1..Len(frame)})
      /\ call.op = "known_events" =>
            call.value = Sorted({frame[i].Event : i \in 1..Len(frame)})
      /\ call.op = "known_compounds" =>
            call.value = Sorted({frame[i].Compound : i \in 1..Len(frame)})

\* a simulate call with n_laps >= 1 made on a fitted predictor
SimulatedLaps ==
    /\ call.op = "simulate"
    /\ predictor._is_fitted
    /\ call.args.n_laps >= 1

\* C10 as stated: simulate with n_laps >= 1 on a fitted predictor returns
\* exactly n_laps predictions, indexed TyreLife, TyreLife+1, ... in that order.
C10_IndexIsTyreLife ==
    SimulatedLaps =>
      /\ call.outcome = "returned"
      /\ Len(call.value) = call.args.n_laps
      /\ \A k \in 1..Len(call.value) :
            call.value[k].index = call.args.TyreLife + 10 * (k - 1)

\* C10 amended: simulate with n_laps >= 1 on a fitted predictor returns
\* exactly n_laps predictions, indexed t, t+1, ... in that order, where t is
\* TyreLife truncated to a whole number (TyreLife itself when it is whole).
C10_IndexIsTruncatedTyreLife ==
    SimulatedLaps =>
      /\ call.outcome = "returned"
      /\ Len(call.value) = call.args.n_laps
      /\ call.value[1].index % 10 = 0
      /\ call.value[1].index <= call.args.TyreLife
      /\ call.args.TyreLife < call.value[1].index + 10
      /\ \A k \in 1..Len(call.value) :
            call.value[k].index = call.value[1].index + 10 * (k - 1)

\* C10 witness: simulate returned two laps for a TyreLife of 2.5
C10_Witness ==
    /\ SimulatedLaps
    /\ call.outcome = "returned"
    /\ call.args.n_laps = 2
    /\ call.args.TyreLife = 25

\* C11: build_features does not mutate its input: after build_features(df)
\* has returned, the table the caller passed in has the columns and values it
\* had before the call.
C11_InputUnchanged ==
    Built => frame = call.args.df

LookupOps ==
    {"predict", "evaluate", "simulate", "feature_importance",
     "known_drivers", "known_events", "known_compounds", "coverage", "impute"}

\* C12: on a fitted predictor no call of predict, evaluate, simulate,
\* feature_importance, known_*, coverage or impute changes the fitted state:
\* the regressor, the imputation tables and global medians, the
\* feature-importance ranking, both MAE and the fitted flag are the same
\* after the call as before it.
C12_LookupsLeaveFittedState ==
    [][ (predictor._is_fitted /\ call'.op \in LookupOps)
          => predictor' = predictor ]_vars

\* C12 witness: a fitted predictor, whose ranking is longer than the head
\* asked for, has returned from feature_importance
C12_Witness ==
    /\ predictor._is_fitted
    /\ call.op = "feature_importance"
    /\ call.outcome = "returned"
    /\ Len(call.value) < Len(predictor.feature_importance_[1])

\* C13: after build_features, in every (Driver, Event) group LapDelta >= 0 on
\* every row, some row of the group has LapDelta = 0, and LapDelta = 0 holds
\* on exactly the rows whose LapTime is the least LapTime of the group, which
\* is the BestLap of every row of the group.
C13_LapDeltaFromBestLap ==
    Built =>
      \A i \in 1..Len(frame) :
        LET G == Group(frame, DRIVER_EVENT, i)
            fastest == \A j \in G : frame[i].LapTime <= frame[j].LapTime
        IN  /\ frame[i].LapDelta >= 0
            /\ \E j \in G : frame[j].LapDelta = 0
            /\ \E j \in G : frame[j].LapTime = frame[i].BestLap
            /\ \A j \in G : frame[i].BestLap <= frame[j].LapTime
            /\ (frame[i].LapDelta = 0) <=> fastest

\* C13 witness: build_features returned a table with a (Driver, Event) group
\* of three laps of which one is slower and one faster than a third
C13_Witness ==
    /\ Built
    /\ \E i, j, k \in 1..Len(frame) :
          /\ {j, k} \subseteq Group(frame, DRIVER_EVENT, i)
          /\ frame[j].LapTime < frame[i].LapTime
          /\ frame[i].LapTime < frame[k].LapTime

\* the column a lap-to-lap delta column is the difference of
DeltaColumns ==
    [LapDeltaPrev |-> "LapTime",
     Sector1Time_PrevDelta |-> "Sector1Time",
     Sector2Time_PrevDelta |-> "Sector2Time",
     Sector3Time_PrevDelta |-> "Sector3Time"]

\* C14: after build_features, LapDeltaPrev and the three Sector*_PrevDelta are
\* 0 on the first row of every Stint in input order, and on every later row
\* they are the row's value minus the value of the nearest earlier row of the
\* same Stint, whatever rows of other Stints lie between the two.
C14_DeltasWithinStint ==
    Built =>
      \A i \in 1..Len(frame) : \A d \in DOMAIN DeltaColumns :
        LET earlier == {j \in Group(frame, STINT, i) : j < i}
        IN  IF earlier = {} THEN frame[i][d] = 0
            ELSE \E j \in earlier :
                   /\ \A k \in earlier : k <= j
                   /\ frame[i][d] = frame[i][DeltaColumns[d]] - frame[j][DeltaColumns[d]]

\* C14 witness: build_features returned a table where a lap's predecessor in
\* its Stint is not the row before it, and the two have different lap times
C14_Witness ==
    /\ Built
    /\ \E i \in 2..Len(frame) : \E j \in 1..(i - 2) :
          /\ j \in Group(frame, STINT, i)
          /\ \A k \in (j + 1)..(i - 1) : k \notin Group(frame, STINT, i)
          /\ frame[j].LapTime # frame[i - 1].LapTime

FitReturned ==
    /\ call.op = "fit"
    /\ call.outcome = "returned"

\* C15: when fit has split the cleaned rows, the train and the test partition
\* are disjoint, together they hold every cleaned row, and no Event has rows
\* in both, whichever split the seed yields and whatever the holdout fraction.
C15_SplitByEvent ==
    FitReturned =>
      LET df == call.value.df
          train == call.value.train_idx
          test == call.value.test_idx
      IN  /\ Len(df) = Len(clean_data(call.args.source))
          /\ train \cap test = {}
          /\ train \cup test = 1..Len(df)
          /\ \A i \in train : \A j \in test : df[i].Event # df[j].Event

\* C15 witness: fit has returned from a split whose test partition holds two
\* rows of one Event
C15_Witness ==
    /\ FitReturned
    /\ call.value.train_idx # {}
    /\ Cardinality(call.value.test_idx) >= 2

\* C16: for every Team, the level coverage(Driver, Event, Compound) reports on
\* a fitted imputer is the level at which impute(Driver, Team, Event,
\* Compound, ...) resolves LapTime, the global fallback included.
C16_CoverageIsImputeLevel ==
    (call.op = "coverage" /\ call.outcome = "returned") =>
      \A t \in Teams :
        call.value = ImputeLevel(imputer, "LapTime", call.args.Driver, t,
                                 call.args.Event, call.args.Compound)

\* C17: in simulate, the BestLap added to each predicted delta is the BestLap
\* median the imputer selected through its fallback chain for the inputs:
\* every predicted lap time is the regressor's delta plus that median.
C17_BestLapIsImputed ==
    (call.op = "simulate" /\ call.outcome = "returned") =>
      LET imputed == ImputedValue(predictor.imputer_[1], "BestLap",
                                  call.args.Driver, call.args.Team,
                                  call.args.Event, call.args.Compound)
          delta == RegressorPredict(predictor.model, call.value)
      IN  \A k \in 1..Len(call.value) :
            call.value[k].value = delta[k] + imputed

\* C18: of the n rows of its input that have all required fields, clean_data
\* drops at most ceil(0.005 * n) as outliers, so that a table with a complete
\* row does not come back empty and laps tied at one lap time are not all
\* removed.
C18_FewOutliersDropped ==
    (call.op = "clean_data" /\ call.outcome = "returned") =>
      LET n == Len(Dropna(call.args.df))
          dropped == n - Len(call.value)
      IN  /\ 1000 * dropped < 1000 + (1000 - OUTLIER_QUANTILE) * n
          /\ n > 0 => call.value # <<>>

\* the state fit leaves behind is all there
FittedStateSet ==
    /\ predictor.imputer_ # None
    /\ predictor.feature_importance_ # None
    /\ predictor.train_mae_ # None
    /\ predictor.test_mae_ # None

\* C19: in every reachable state the fitted flag is true only if the imputer,
\* the feature-importance ranking and both MAE are set; a fit call that raises
\* on an instance that was never fitted leaves the flag false; and no call
\* (fit, predict, evaluate, simulate, save or any other) takes the flag from
\* true back to false.
C19_FittedFlag ==
    /\ [](predictor._is_fitted => FittedStateSet)
    /\ [][ /\ predictor._is_fitted => predictor'._is_fitted
           /\ (~predictor._is_fitted /\ call'.op = "fit" /\ call'.outcome # "returned")
                => ~predictor'._is_fitted ]_vars

\* C19 witness: a fit call has raised on a predictor that an earlier fit had
\* fitted, and the flag is still true
C19_Witness ==
    /\ predictor._is_fitted
    /\ call.op = "fit"
    /\ call.outcome = "ValueError"

====
